---- MODULE Spec2Model ----
(***************************************************************************)
(* The Redis-backed job queue of the repository: the `todo` and            *)
(* `processing` lists, the `todo-lock` / `processing-lock` keys, the       *)
(* dispatcher `execute` and the sweeper `retry`, run by several worker     *)
(* processes against one shared store.                                     *)
(*                                                                         *)
(* One step of the model is one Redis command together with the piece of   *)
(* JavaScript that runs, without an await, when its reply arrives.         *)
(* The clock `now` counts units of 10 minutes, the staleness threshold     *)
(* and the sweep interval; the 10 second lock TTL is below the unit and    *)
(* is modelled by the action ExpireLock.                                   *)
(***************************************************************************)
EXTENDS Naturals, Sequences, FiniteSets, Bags

\* ------------------------------------------------------------- bounds
NumWorkers  == 2     \* worker processes sharing the store
MaxJobs     == 2     \* distinct job ids the producer submits
MaxTicks    == 2     \* dispatch ticks (calls of execute) in a run
MaxSweeps   == 2     \* sweeps (calls of retry) in a run
MaxTime     == 3     \* last clock reading
MaxExpiries == 1     \* lock TTLs that elapse while the holder is in its critical section
MaxErrors   == 1     \* Redis commands that reject
GateJobs    == 1     \* job ids submitted in the runs that exercise the gate
GateSweeps  == 1     \* sweeps in the runs that exercise the gate
LiveJobs    == 1     \* job ids submitted in the runs checked for progress
LiveSweeps  == 1     \* sweeps in the runs checked for progress

\* -------------------------------------------------- program constants
MAX_JOBS       == 3  \* const MAX_JOBS = 3
MaxTries       == 3  \* Number(processing.tries) < 3
StaleThreshold == 1  \* 10 * 60 * 1000 ms, in clock units of 10 minutes

Workers == 1..NumWorkers
Keys    == {"todo", "processing"}

VARIABLES
    todo,        \* the Redis list `todo`
    processing,  \* the Redis list `processing`
    lock,        \* lock[k]: the key `<k>-lock` exists
    running,     \* running[w]: the counter `running` of worker w
    cycles,      \* cycles[w]: bag of the calls of execute in progress in w
    sweeps,      \* bag of the calls of retry in progress
    now,         \* Date.now()
    nextId,      \* the next id the producer submits
    ticks,       \* calls of execute so far
    swept,       \* calls of retry so far
    claims,      \* claims[i]: records with id i moved from todo to processing
    skips,       \* calls of execute that found running >= MAX_JOBS
    expired,     \* lock TTLs that elapsed while the holder was in its critical section
    errors,      \* Redis commands that rejected
    raced,       \* a record was pushed while a call of execute was between its lindex and its MULTI
    limit        \* the length of the run: ticks, sweeps and job ids allowed

lists  == <<todo, processing>>
procs  == <<running, cycles, sweeps>>
counts == <<nextId, ticks, swept, skips, expired, errors, raced, limit>>
vars   == <<todo, processing, lock, running, cycles, sweeps, now, nextId, ticks,
            swept, claims, skips, expired, errors, raced, limit>>

\* ------------------------------------------------------------ records
\* JSON.stringify({ name, id }): no `tries`, no `timestamp` (0 stands for absent).
NewJobClaimed(i) == [id |-> i, tries |-> 1, timestamp |-> 0]
NewJob(i) == [id |-> i, tries |-> 0, timestamp |-> 0]

\* What lindex answers on an empty list.
NoJob == [id |-> 0, tries |-> 0, timestamp |-> 0]

\* copy.timestamp = Date.now(); copy.tries = copy.tries ? copy.tries + 1 : 1
StampKeepsTries(rec, t) == [rec EXCEPT !.timestamp = t]
Stamp(rec, t) ==
    [rec EXCEPT !.timestamp = t, !.tries = IF rec.tries # 0 THEN rec.tries + 1 ELSE 1]

\* Date.now() - Number(processing.timestamp) >= 10 * 60 * 1000
IsStaleStrict(rec, t) == t > rec.timestamp + StaleThreshold
IsStale(rec, t) == t >= rec.timestamp + StaleThreshold

\* Number(processing.tries) < 3
CanRetryAlways(rec) == TRUE
CanRetry(rec) == rec.tries < MaxTries

\* if (running < MAX_JOBS)
GateOffByOne(r) == r <= MAX_JOBS
Gate(r) == r < MAX_JOBS

\* ------------------------------------------------------ list commands
\* LINDEX list 0
LIndex(list) == IF list = <<>> THEN NoJob ELSE Head(list)

\* LSET list 0 value: answers an error on a missing key, and the commands
\* queued after it in the transaction still run.
LSet(list, rec) == IF list = <<>> THEN list ELSE <<rec>> \o Tail(list)

\* LMOVE src dst LEFT RIGHT, the source after the move
LMoveKeepsSrc(src) == src
LMoveSrc(src) == IF src = <<>> THEN src ELSE Tail(src)

\* LMOVE src dst LEFT RIGHT, the destination after the move
LMoveDrops(src, dst) == dst
LMovePrepends(src, dst) == IF src = <<>> THEN dst ELSE <<Head(src)>> \o dst
LMoveDst(src, dst) == IF src = <<>> THEN dst ELSE Append(dst, Head(src))

\* LPOP list
LPop(list) == IF list = <<>> THEN list ELSE Tail(list)

\* LREM list 1 value: the first element equal to value goes
LRemHead(list, rec) == IF list = <<>> THEN list ELSE Tail(list)
RECURSIVE LRem(_, _)
LRem(list, rec) ==
    IF list = <<>> THEN <<>>
    ELSE IF Head(list) = rec THEN Tail(list)
    ELSE <<Head(list)>> \o LRem(Tail(list), rec)

\* ------------------------------------------------------------ helpers
Ids(list) == {list[k].id : k \in 1..Len(list)}
Records(list) == {list[k] : k \in 1..Len(list)}
Occurs(list, rec) == Cardinality({k \in 1..Len(list) : list[k] = rec})

Task(pc, rec) == [pc |-> pc, copy |-> rec]

Put(B, t) == B (+) SetToBag({t})
Drop(B, t) == B (-) SetToBag({t})

\* The places of execute and of retry between acquireLock(k) and releaseLock(k).
TodoPcs == {"lindex", "multi", "relTodo"}
ProcPcs == {"lrem", "relProc"}
SweepPcs == {"lindex", "multi", "lpop", "relProc"}

RECURSIVE SumOver(_, _)
SumOver(f, S) ==
    IF S = {} THEN 0
    ELSE LET x == CHOOSE y \in S : TRUE IN f[x] + SumOver(f, S \ {x})

CountIn(B, pcs) ==
    LET S == {t \in BagToSet(B) : t.pc \in pcs}
    IN SumOver([t \in S |-> CopiesIn(t, B)], S)

Holders(k) ==
    IF k = "todo"
    THEN SumOver([w \in Workers |-> CountIn(cycles[w], TodoPcs)], Workers)
    ELSE SumOver([w \in Workers |-> CountIn(cycles[w], ProcPcs)], Workers)
         + CountIn(sweeps, SweepPcs)

\* ---------------------------------------------------------------- Init
\* The lists live in Redis and outlive the workers: the workers start against
\* an empty store, or against one in which an earlier run left job 1 in
\* `todo`, claimed twice (the second time at clock reading 1) and requeued
\* by a sweep since.
Requeued == [id |-> 1, tries |-> MaxTries - 1, timestamp |-> 1]

Start(lim) ==
    /\ limit = lim
    /\ todo \in {<<>>, <<Requeued>>}
    /\ processing = <<>>
    /\ lock = [k \in Keys |-> FALSE]
    /\ running = [w \in Workers |-> 0]
    /\ cycles = [w \in Workers |-> EmptyBag]
    /\ sweeps = EmptyBag
    /\ now = 1 + StaleThreshold
    /\ nextId = Len(todo) + 1
    /\ ticks = 0
    /\ swept = 0
    /\ claims = [i \in 1..lim.jobs |-> IF i \in Ids(todo) THEN MaxTries - 1 ELSE 0]
    /\ skips = 0
    /\ expired = 0
    /\ errors = 0
    /\ raced = FALSE

Init == Start([ticks |-> MaxTicks, sweeps |-> MaxSweeps, jobs |-> MaxJobs])

\* Runs long enough for one worker to tick with MAX_JOBS calls in progress.
InitGate == Start([ticks |-> MAX_JOBS + 1, sweeps |-> GateSweeps, jobs |-> GateJobs])

\* ------------------------------------------------------------ producer
\* app.post("/"): redis.rpush("todo", JSON.stringify({ name, id }))
Enqueue ==
    /\ nextId <= limit.jobs
    /\ todo' = Append(todo, NewJob(nextId))
    /\ nextId' = nextId + 1
    /\ raced' = (raced \/ \E w \in Workers : CountIn(cycles[w], {"multi"}) > 0)
    /\ UNCHANGED <<processing, lock, procs, now, ticks, swept, claims, skips,
                   expired, errors, limit>>

\* -------------------------------------------------------------- clock
Tick ==
    /\ now < MaxTime
    /\ now' = now + 1
    /\ UNCHANGED <<lists, lock, procs, counts, claims>>

\* --------------------------------------------------------------- locks
\* redis.set(`${key}-lock`, "locked", "NX", "EX", 10) answers OK
SetNX(k) == ~lock[k]

\* releaseLock: redis.del(`${key}-lock`)
DelNothing(k) == lock
Del(k) == [lock EXCEPT ![k] = FALSE]

\* "EX", 10: the key is deleted 10 seconds after it was set
NeverExpires(k) == FALSE /\ UNCHANGED vars
ExpireLock(k) ==
    /\ lock[k]
    /\ Holders(k) > 0 => expired < MaxExpiries
    /\ lock' = [lock EXCEPT ![k] = FALSE]
    /\ expired' = IF Holders(k) > 0 THEN expired + 1 ELSE expired
    /\ UNCHANGED <<lists, procs, now, nextId, ticks, swept, claims, skips, errors,
                   raced, limit>>

\* ---------------------------------------------------------- dispatcher
\* The end of a call of execute: `running -= 1` after the try/catch.
FinishKeepsRunning(w, t) ==
    /\ UNCHANGED running
    /\ cycles' = [cycles EXCEPT ![w] = Drop(cycles[w], t)]
Finish(w, t) ==
    /\ running' = [running EXCEPT ![w] = running[w] - 1]
    /\ cycles' = [cycles EXCEPT ![w] = Drop(cycles[w], t)]

\* A call of execute goes on to its next await.
Goto(w, t, u) ==
    /\ cycles' = [cycles EXCEPT ![w] = Put(Drop(cycles[w], t), u)]
    /\ UNCHANGED running

\* setInterval(() => execute(), ...): if (running < MAX_JOBS) { running += 1; ... }
Execute(w) ==
    /\ ticks < limit.ticks
    /\ ticks' = ticks + 1
    /\ IF Gate(running[w])
       THEN /\ running' = [running EXCEPT ![w] = running[w] + 1]
            /\ cycles' = [cycles EXCEPT ![w] = Put(cycles[w], Task("acqTodo", NoJob))]
            /\ UNCHANGED skips
       ELSE /\ skips' = skips + 1
            /\ UNCHANGED <<running, cycles>>
    /\ UNCHANGED <<lists, lock, sweeps, now, nextId, swept, claims, expired, errors,
                   raced, limit>>

\* await acquireLock("todo") resolves
AcquireTodo(w, t) ==
    /\ t.pc = "acqTodo"
    /\ SetNX("todo")
    /\ lock' = [lock EXCEPT !["todo"] = TRUE]
    /\ Goto(w, t, Task("lindex", NoJob))
    /\ UNCHANGED <<lists, sweeps, now, counts, claims>>

\* const newProcess = await redis.lindex("todo", 0); if (newProcess) { copy = ... }
PeekTodo(w, t) ==
    /\ t.pc = "lindex"
    /\ IF LIndex(todo) # NoJob
       THEN Goto(w, t, Task("multi", Stamp(LIndex(todo), now)))
       ELSE Goto(w, t, Task("relTodo", NoJob))
    /\ UNCHANGED <<lists, lock, sweeps, now, counts, claims>>

\* multi().lset("todo", 0, copy).lmove("todo", "processing", "LEFT", "RIGHT").exec()
ClaimTodo(list, copy) == LMoveSrc(LSet(list, copy))
ClaimProcessing(list, dst, copy) == LMoveDst(LSet(list, copy), dst)

Claim(w, t) ==
    /\ t.pc = "multi"
    /\ todo' = ClaimTodo(todo, t.copy)
    /\ processing' = ClaimProcessing(todo, processing, t.copy)
    /\ claims' = IF todo = <<>> THEN claims
                 ELSE [claims EXCEPT ![t.copy.id] = claims[t.copy.id] + 1]
    /\ Goto(w, t, Task("relTodo", t.copy))
    /\ UNCHANGED <<lock, sweeps, now, counts>>

\* await releaseLock("todo"): after the claim the body starts, on an empty
\* list the call ends.
ReleaseTodo(w, t) ==
    /\ t.pc = "relTodo"
    /\ lock' = Del("todo")
    /\ IF t.copy # NoJob THEN Goto(w, t, Task("body", t.copy)) ELSE Finish(w, t)
    /\ UNCHANGED <<lists, sweeps, now, counts, claims>>

\* await timeConsumingFunction() resolves
BodySucceeds(w, t) ==
    /\ t.pc = "body"
    /\ Goto(w, t, Task("acqProc", t.copy))
    /\ UNCHANGED <<lists, lock, sweeps, now, counts, claims>>

\* await timeConsumingFunction() rejects: catch (err), then running -= 1
BodyFails(w, t) ==
    /\ t.pc = "body"
    /\ Finish(w, t)
    /\ UNCHANGED <<lists, lock, sweeps, now, counts, claims>>

\* await acquireLock("processing") resolves
AcquireProcessing(w, t) ==
    /\ t.pc = "acqProc"
    /\ SetNX("processing")
    /\ lock' = [lock EXCEPT !["processing"] = TRUE]
    /\ Goto(w, t, Task("lrem", t.copy))
    /\ UNCHANGED <<lists, sweeps, now, counts, claims>>

\* await redis.lrem("processing", 1, JSON.stringify(copy))
Remove(w, t) ==
    /\ t.pc = "lrem"
    /\ processing' = LRem(processing, t.copy)
    /\ Goto(w, t, Task("relProc", t.copy))
    /\ UNCHANGED <<todo, lock, sweeps, now, counts, claims>>

\* await releaseLock("processing"), then running -= 1
ReleaseProcessing(w, t) ==
    /\ t.pc = "relProc"
    /\ lock' = Del("processing")
    /\ Finish(w, t)
    /\ UNCHANGED <<lists, sweeps, now, counts, claims>>

\* A Redis command of execute rejects: catch (err) { console.error(err) },
\* then running -= 1. No lock is released on this path.
ExecuteError(w, t) ==
    /\ t.pc \in {"acqTodo", "lindex", "multi", "relTodo", "acqProc", "lrem", "relProc"}
    /\ errors < MaxErrors
    /\ errors' = errors + 1
    /\ Finish(w, t)
    /\ UNCHANGED <<lists, lock, sweeps, now, nextId, ticks, swept, claims, skips,
                   expired, raced, limit>>

\* ------------------------------------------------------------- sweeper
SGoto(s, u) == sweeps' = Put(Drop(sweeps, s), u)

\* setInterval(() => retry(), ...)
Retry ==
    /\ swept < limit.sweeps
    /\ swept' = swept + 1
    /\ sweeps' = Put(sweeps, Task("acqProc", NoJob))
    /\ UNCHANGED <<lists, lock, running, cycles, now, nextId, ticks, claims, skips,
                   expired, errors, raced, limit>>

\* await acquireLock("processing") resolves
SweepAcquire(s) ==
    /\ s.pc = "acqProc"
    /\ SetNX("processing")
    /\ lock' = [lock EXCEPT !["processing"] = TRUE]
    /\ SGoto(s, Task("lindex", NoJob))
    /\ UNCHANGED <<lists, running, cycles, now, counts, claims>>

\* The branch retry takes on the head it read.
SweepBranch(rec, t) ==
    IF rec = NoJob THEN "relProc"
    ELSE IF ~IsStale(rec, t) THEN "relProc"
    ELSE IF CanRetry(rec) THEN "multi"
    ELSE "lpop"

\* const res = await redis.lindex("processing", 0); if (res) { ... }
SweepPeek(s) ==
    /\ s.pc = "lindex"
    /\ LET rec == LIndex(processing)
           to == SweepBranch(rec, now)
       IN SGoto(s, Task(to, rec))
    /\ UNCHANGED <<lists, lock, running, cycles, now, counts, claims>>

\* multi().lset("processing", 0, record).lmove("processing", "todo", "LEFT", "RIGHT").exec()
RequeueProcessing(list, rec) == LMoveSrc(LSet(list, rec))
RequeueTodo(list, dst, rec) == LMoveDst(LSet(list, rec), dst)

SweepRequeue(s) ==
    /\ s.pc = "multi"
    /\ processing' = RequeueProcessing(processing, s.copy)
    /\ todo' = RequeueTodo(processing, todo, s.copy)
    /\ SGoto(s, Task("relProc", s.copy))
    /\ UNCHANGED <<lock, running, cycles, now, counts, claims>>

\* await redis.lpop("processing")
SweepDiscard(s) ==
    /\ s.pc = "lpop"
    /\ processing' = LPop(processing)
    /\ SGoto(s, Task("relProc", s.copy))
    /\ UNCHANGED <<todo, lock, running, cycles, now, counts, claims>>

\* await releaseLock("processing")
SweepRelease(s) ==
    /\ s.pc = "relProc"
    /\ lock' = Del("processing")
    /\ sweeps' = Drop(sweeps, s)
    /\ UNCHANGED <<lists, running, cycles, now, counts, claims>>

\* A Redis command of retry rejects: catch (err) { console.error(err) }
SweepError(s) ==
    /\ s.pc \in {"acqProc", "lindex", "multi", "lpop", "relProc"}
    /\ errors < MaxErrors
    /\ errors' = errors + 1
    /\ sweeps' = Drop(sweeps, s)
    /\ UNCHANGED <<lists, lock, running, cycles, now, nextId, ticks, swept, claims,
                   skips, expired, raced, limit>>

\* ---------------------------------------------------------------- Next
Next ==
    \/ Enqueue
    \/ Tick
    \/ \E k \in Keys : ExpireLock(k)
    \/ \E w \in Workers : Execute(w)
    \/ \E w \in Workers : \E t \in BagToSet(cycles[w]) : AcquireTodo(w, t)
    \/ \E w \in Workers : \E t \in BagToSet(cycles[w]) : PeekTodo(w, t)
    \/ \E w \in Workers : \E t \in BagToSet(cycles[w]) : Claim(w, t)
    \/ \E w \in Workers : \E t \in BagToSet(cycles[w]) : ReleaseTodo(w, t)
    \/ \E w \in Workers : \E t \in BagToSet(cycles[w]) : BodySucceeds(w, t)
    \/ \E w \in Workers : \E t \in BagToSet(cycles[w]) : BodyFails(w, t)
    \/ \E w \in Workers : \E t \in BagToSet(cycles[w]) : AcquireProcessing(w, t)
    \/ \E w \in Workers : \E t \in BagToSet(cycles[w]) : Remove(w, t)
    \/ \E w \in Workers : \E t \in BagToSet(cycles[w]) : ReleaseProcessing(w, t)
    \/ \E w \in Workers : \E t \in BagToSet(cycles[w]) : ExecuteError(w, t)
    \/ Retry
    \/ \E s \in BagToSet(sweeps) : SweepAcquire(s)
    \/ \E s \in BagToSet(sweeps) : SweepPeek(s)
    \/ \E s \in BagToSet(sweeps) : SweepRequeue(s)
    \/ \E s \in BagToSet(sweeps) : SweepDiscard(s)
    \/ \E s \in BagToSet(sweeps) : SweepRelease(s)
    \/ \E s \in BagToSet(sweeps) : SweepError(s)

Spec == Init /\ [][Next]_vars

SpecGate == InitGate /\ [][Next]_vars

\* Every timer that is due fires, every Redis command that does not reject is
\* answered, every body ends and every TTL elapses: the polls of acquireLock,
\* the steps of the calls in progress and the expiry of the locks.
Progress ==
    \/ \E k \in Keys : ExpireLock(k)
    \/ \E w \in Workers : \E t \in BagToSet(cycles[w]) :
          \/ AcquireTodo(w, t) \/ PeekTodo(w, t) \/ Claim(w, t) \/ ReleaseTodo(w, t)
          \/ BodySucceeds(w, t) \/ BodyFails(w, t)
          \/ AcquireProcessing(w, t) \/ Remove(w, t) \/ ReleaseProcessing(w, t)
    \/ \E s \in BagToSet(sweeps) :
          \/ SweepAcquire(s) \/ SweepPeek(s) \/ SweepRequeue(s) \/ SweepDiscard(s)
          \/ SweepRelease(s)

InitLive == Start([ticks |-> MaxTicks, sweeps |-> LiveSweeps, jobs |-> LiveJobs])

SpecLive == InitLive /\ [][Next]_vars /\ WF_vars(Progress)

\* ------------------------------------------------------------- claims
AllIds == Ids(todo) \cup Ids(processing)

\* The calls of execute that have run their claim transaction and hold the
\* record they stamped: about to release `todo-lock`, executing the body, or
\* on the way to the removal.
ClaimedPcs == {"relTodo", "body", "acqProc", "lrem"}
Claimed(w) == {t \in BagToSet(cycles[w]) : t.pc \in ClaimedPcs /\ t.copy # NoJob}

\* C1: in every reachable state no job id is present in `todo` and in
\* `processing` at the same time.
C1_OneListAtATime == Ids(todo) \cap Ids(processing) = {}

\* C2: for every job, the number of moves of a record of that job from `todo`
\* to `processing` never exceeds maxAttempts (3).
C2_BoundedClaims == \A i \in DOMAIN claims : claims[i] <= MaxTries

\* C6: for each list lock, at most one call of execute or retry at a time is
\* between its successful acquireLock(key) and its releaseLock(key).
C6_OneHolder == \A k \in Keys : Holders(k) <= 1

\* C7: a record of `todo` is handed to at most one executor per claim: no two
\* calls of execute in progress hold the record of the same claim (the same
\* job id with the same `tries`).
C7_OneExecutorPerClaim ==
    /\ \A w \in Workers : \A t \in Claimed(w) : CopiesIn(t, cycles[w]) = 1
    /\ \A w1, w2 \in Workers : \A t1 \in Claimed(w1) : \A t2 \in Claimed(w2) :
          (t1.copy.id = t2.copy.id /\ t1.copy.tries = t2.copy.tries)
              => (w1 = w2 /\ t1 = t2)

\* C8 (the part a finite run refutes): every submitted job is claimed at least
\* once before it reaches a terminal state, so a job that is in neither list
\* has been claimed.
C8_ClaimedBeforeGone ==
    errors = 0 => \A i \in 1..(nextId - 1) : i \in AllIds \/ claims[i] >= 1

\* A record of `processing` that no call of execute in progress holds: its
\* body failed and the call ended.
Orphan(r) == \A w \in Workers : \A t \in Claimed(w) : t.copy # r

\* C4: a failing body changes neither list and takes no lock, and the record
\* of a job whose body failed leaves `processing` only when a sweep moves it
\* to the tail of `todo` (tries < 3) or discards it as exhausted (tries >= 3).
C4_FailedStaysInFlight ==
    [][/\ \A w \in Workers : \A t \in BagToSet(cycles[w]) :
              BodyFails(w, t) => UNCHANGED <<todo, processing, lock>>
       /\ \A r \in Records(processing) :
              (errors = 0 /\ Orphan(r) /\ Occurs(processing', r) < Occurs(processing, r))
                  => \E s \in BagToSet(sweeps) :
                        \/ SweepRequeue(s) /\ s.copy = r /\ CanRetry(r)
                              /\ todo' = Append(todo, r)
                        \/ SweepDiscard(s) /\ s.copy = r /\ ~CanRetry(r)]_vars

\* C5: a job leaves both lists only when the call of execute that ran its body
\* to success removes its record, or when a sweep discards it after reading
\* it at the head of `processing` with tries >= 3; no other step drops or
\* overwrites a record.
C5_OnlyTwoExits ==
    [][\A i \in AllIds :
          i \notin AllIds'
              => \/ \E w \in Workers : \E t \in BagToSet(cycles[w]) :
                       Remove(w, t) /\ t.copy.id = i
                 \/ \E s \in BagToSet(sweeps) :
                       SweepDiscard(s) /\ s.copy.id = i /\ s.copy.tries >= MaxTries]_vars

Bodies(w) == CountIn(cycles[w], {"body"})

\* C3: within one worker the job bodies executing at once number at most
\* `running`, which never exceeds MAX_JOBS (3), however many ticks fire while
\* earlier calls of execute are in progress.
C3_ConcurrencyBound ==
    \A w \in Workers : Bodies(w) <= running[w] /\ running[w] <= MAX_JOBS

\* MAX_JOBS bodies execute in one worker and a further tick was turned away.
C3_Witness == skips >= 1 /\ \E w \in Workers : Bodies(w) = MAX_JOBS

\* C9, scenario A: one job submitted, one dispatch tick, no sweep and no
\* rejected command so far. Once the call has run its claim, `todo` is empty
\* and `processing` holds exactly the stamped record, whose tries is the
\* number of claims of the job; once it has run its removal, both lists are
\* empty.
C9_ScenarioA ==
    (nextId = 2 /\ ticks = 1 /\ swept = 0 /\ errors = 0)
        => \A w \in Workers : \A t \in BagToSet(cycles[w]) :
              /\ (t.pc \in ClaimedPcs /\ t.copy # NoJob)
                    => /\ todo = <<>>
                       /\ processing = <<t.copy>>
                       /\ t.copy.tries = claims[t.copy.id]
                       /\ t.copy.timestamp <= now
              /\ t.pc = "relProc" => (todo = <<>> /\ processing = <<>>)

\* C9, the steps: lindex on a fresh head hands the call the record with
\* tries = 1 and timestamp = now; the claim of a head that is still the record
\* read moves that stamped record to the tail of `processing`; the removal
\* takes exactly one occurrence of the stamped record out of `processing`.
C9_Steps ==
    \A w \in Workers : \A t \in BagToSet(cycles[w]) :
        /\ (PeekTodo(w, t) /\ todo # <<>> /\ Head(todo).tries = 0)
              => cycles'[w] = Put(Drop(cycles[w], t),
                     Task("multi", [id |-> Head(todo).id, tries |-> 1, timestamp |-> now]))
        /\ (Claim(w, t) /\ todo # <<>> /\ Head(todo).id = t.copy.id
                /\ Head(todo).tries + 1 = t.copy.tries)
              => (todo' = Tail(todo) /\ processing' = Append(processing, t.copy))
        /\ (Remove(w, t) /\ Occurs(processing, t.copy) > 0)
              => /\ Len(processing') = Len(processing) - 1
                 /\ Occurs(processing', t.copy) = Occurs(processing, t.copy) - 1
                 /\ \A r \in Records(processing) \ {t.copy} :
                       Occurs(processing', r) = Occurs(processing, r)

\* C9: a dispatch tick on a fresh head moves the job to the tail of
\* `processing` with tries = 1 and timestamp = now, and after a successful
\* body removes exactly that record, so that a run of one job and one tick
\* ends with both lists empty.
C9_ClaimThenRemove == []C9_ScenarioA /\ [][C9_Steps]_vars

\* One fresh job, one tick, the removal done and both lists empty.
C9_Witness ==
    /\ nextId = 2 /\ ticks = 1 /\ swept = 0 /\ errors = 0 /\ claims[1] = 1
    /\ todo = <<>> /\ processing = <<>>
    /\ \E w \in Workers : \E t \in BagToSet(cycles[w]) : t.pc = "relProc"

C10_WitnessAtThreshold ==
    \E s \in BagToSet(sweeps) :
        s.pc = "multi" /\ now = s.copy.timestamp + StaleThreshold

\* C11: the requeue transaction of a sweep that read a stale head with
\* tries < 3 takes that record off the head of `processing` and appends it,
\* tries unchanged, to the tail of `todo` in one step; every other record of
\* both lists keeps its place in the order.
C11_RequeueMovesHead ==
    [][\A s \in BagToSet(sweeps) :
          SweepRequeue(s)
              => /\ IsStale(s.copy, now) /\ s.copy.tries < MaxTries
                 /\ processing # <<>> /\ Head(processing) = s.copy
                 /\ processing' = Tail(processing)
                 /\ todo' = Append(todo, s.copy)]_vars

\* C12: the discard of a sweep that read a stale head with tries >= 3 takes
\* that record off `processing` and adds nothing to `todo`; the job is then in
\* neither list.
C12_DiscardDropsHead ==
    [][\A s \in BagToSet(sweeps) :
          SweepDiscard(s)
              => /\ IsStale(s.copy, now) /\ s.copy.tries >= MaxTries
                 /\ processing # <<>> /\ Head(processing) = s.copy
                 /\ processing' = Tail(processing)
                 /\ todo' = todo
                 /\ s.copy.id \notin Ids(todo') \cup Ids(processing')]_vars

\* C13: a push appends exactly one record with no tries and no timestamp to
\* the tail of `todo`, takes no lock and leaves `processing` and every call in
\* progress as they were; every record already in `todo` keeps its place, so
\* the head a call of execute has read inside its critical section is still
\* the head, and the claim that follows moves that head and leaves the pushed
\* record in `todo`.
C13_EnqueueAppendsOne ==
    [][/\ Enqueue
             => /\ todo' = Append(todo, [id |-> nextId, tries |-> 0, timestamp |-> 0])
                /\ Len(todo') = Len(todo) + 1
                /\ UNCHANGED <<processing, lock, running, cycles, sweeps>>
       /\ \A w \in Workers : \A t \in BagToSet(cycles[w]) :
             (Claim(w, t) /\ todo # <<>> /\ Head(todo).id = t.copy.id
                  /\ Head(todo).tries + 1 = t.copy.tries)
                 => /\ todo' = Tail(todo)
                    /\ Len(todo') + Len(processing') = Len(todo) + Len(processing)]_vars

\* The only call of execute so far read job h, a record was pushed before its
\* MULTI, and after the MULTI the pushed record is all of `todo` and the
\* stamped record all of `processing`.
C13_Witness ==
    /\ raced /\ ticks = 1 /\ swept = 0 /\ errors = 0
    /\ todo = <<NewJob(nextId - 1)>>
    /\ \E w \in Workers : \E t \in BagToSet(cycles[w]) :
          t.pc = "relTodo" /\ processing = <<t.copy>>

C14_LeftOnlyByError ==
    \A k \in Keys : (lock[k] /\ Holders(k) = 0) => errors > 0

\* The releaseLock of execute and of retry deletes the lock; a call that ends
\* on a rejected command leaves both locks as they are.
C14_Steps ==
    /\ \A w \in Workers : \A t \in BagToSet(cycles[w]) :
          /\ ReleaseTodo(w, t) => ~lock'["todo"]
          /\ ReleaseProcessing(w, t) => ~lock'["processing"]
          /\ ExecuteError(w, t) => lock' = lock
    /\ \A s \in BagToSet(sweeps) :
          /\ SweepRelease(s) => ~lock'["processing"]
          /\ SweepError(s) => lock' = lock

InBody(w) == {t \in BagToSet(cycles[w]) : t.pc = "body"}

\* While a body runs and no call is inside a critical section, no lock is
\* set unless a call that ended on a rejected command left it behind.
C15_NoLockLeftForBody ==
    \A w \in Workers : \A k \in Keys :
        (InBody(w) # {} /\ Holders(k) = 0 /\ errors = 0) => ~lock[k]

\* A call starts its body in the step of its releaseLock("todo"), which
\* deletes `todo-lock`; the body sets no lock; the call leaves the body for
\* acquireLock("processing") or for its end, and `processing-lock` is set for
\* it only from there.
C15_Steps ==
    \A w \in Workers :
        /\ \A u \in InBody(w)' :
              CopiesIn(u, cycles'[w]) > CopiesIn(u, cycles[w])
                  => \E t \in BagToSet(cycles[w]) :
                        /\ ReleaseTodo(w, t) /\ t.pc = "relTodo" /\ t.copy = u.copy
                        /\ ~lock'["todo"]
        /\ \A t \in InBody(w) :
              /\ (BodySucceeds(w, t) \/ BodyFails(w, t)) => lock' = lock
              /\ BodySucceeds(w, t)
                    => cycles'[w] = Put(Drop(cycles[w], t), Task("acqProc", t.copy))
        /\ \A t \in BagToSet(cycles[w]) : AcquireProcessing(w, t) => t.pc = "acqProc"

\* C15: a job body runs after the call has released `todo-lock` and before
\* it acquires `processing-lock`: a call executing its body is inside neither
\* critical section and has left neither lock set.
C15_BodyOutsideLocks == []C15_NoLockLeftForBody /\ [][C15_Steps]_vars

\* A body is running on a claimed record with both locks clear.
C15_Witness ==
    \E w \in Workers : \E t \in InBody(w) :
        /\ Occurs(processing, t.copy) = 1
        /\ ~lock["todo"] /\ ~lock["processing"]
        /\ Holders("todo") = 0 /\ Holders("processing") = 0 /\ errors = 0

\* The calls polling in acquireLock(k).
Waiting(k) ==
    IF k = "todo"
    THEN SumOver([w \in Workers |-> CountIn(cycles[w], {"acqTodo"})], Workers)
    ELSE SumOver([w \in Workers |-> CountIn(cycles[w], {"acqProc"})], Workers)
         + CountIn(sweeps, {"acqProc"})

\* C16: acquireLock keeps polling until its SET NX succeeds or rejects:
\* whenever calls are waiting in acquireLock(k), whether the holder releases
\* the lock or ended without releasing it so that only the TTL clears it, a
\* state follows in which none of them is waiting any more.
C16_WaitersAcquire == \A k \in Keys : (Waiting(k) > 0) ~> (Waiting(k) = 0)

\* A call polls for a lock that a call ended by a rejected command left set.
C16_Witness ==
    \E k \in Keys : Waiting(k) > 0 /\ lock[k] /\ Holders(k) = 0 /\ errors > 0

AllRecords == Records(todo) \cup Records(processing)

\* C17: the claim of a record moves it to `processing` with its tries
\* increased by exactly 1 (absent becomes 1) and its timestamp set to the
\* reading of the clock taken for the claim; no other step changes the tries
\* of a record: apart from a claim, every record in the lists after a step
\* was in the lists before it or is the record just pushed.
C17_TriesOnlyByClaim ==
    [][/\ \A w \in Workers : \A t \in BagToSet(cycles[w]) :
             (Claim(w, t) /\ todo # <<>>)
                 => LET r == processing'[Len(processing')]
                    IN /\ r.id = Head(todo).id
                       /\ r.tries = Head(todo).tries + 1
                       /\ r.tries = claims'[r.id]
                       /\ r.timestamp = t.copy.timestamp /\ r.timestamp <= now
                       /\ AllRecords' \subseteq AllRecords \cup {r}
       /\ (\A w \in Workers : \A t \in BagToSet(cycles[w]) : ~Claim(w, t))
             => AllRecords' \subseteq AllRecords \cup {NewJob(nextId)}]_vars

C19_EmptyTodoTick ==
    [][\A w \in Workers : \A t \in BagToSet(cycles[w]) :
          /\ (PeekTodo(w, t) /\ todo = <<>>)
                => /\ cycles'[w] = Put(Drop(cycles[w], t), Task("relTodo", NoJob))
                   /\ UNCHANGED <<todo, processing, running, claims>>
          /\ (ReleaseTodo(w, t) /\ t.copy = NoJob)
                => /\ ~lock'["todo"]
                   /\ running'[w] = running[w] - 1
                   /\ cycles'[w] = Drop(cycles[w], t)
                   /\ InBody(w)' = InBody(w)
                   /\ UNCHANGED <<todo, processing, claims>>]_vars

\* The only tick so far ran against a store that never held a job and has
\* ended without a rejected command: lock released, `running` back to 0.
C19_Witness ==
    /\ ticks = 1 /\ nextId = 1 /\ errors = 0 /\ todo = <<>> /\ processing = <<>>
    /\ ~lock["todo"]
    /\ \A w \in Workers : cycles[w] = EmptyBag /\ running[w] = 0

\* C20: a rejected Redis command ends the call of execute or of retry that
\* awaited it and nothing else: both lists stay as they were, `running` is
\* decreased by 1 and the timers are untouched, so the next tick and the next
\* sweep fire as before. A claim or requeue transaction is all or nothing:
\* either the stamped record leaves the head of the source and arrives at the
\* tail of the destination, or (LSET rejected on an empty source, LMOVE
\* moving nothing) both lists stay as they were; a stamped head is never left
\* in the source and no unstamped record is moved.
C20_ErrorsCaughtAllOrNothing ==
    [][/\ \A w \in Workers : \A t \in BagToSet(cycles[w]) :
             /\ ExecuteError(w, t)
                   => /\ UNCHANGED <<todo, processing, ticks, swept, limit, sweeps>>
                      /\ running'[w] = running[w] - 1
                      /\ cycles'[w] = Drop(cycles[w], t)
             /\ Claim(w, t)
                   => \/ /\ todo # <<>>
                         /\ todo' = Tail(todo)
                         /\ processing' = Append(processing, t.copy)
                      \/ todo = <<>> /\ UNCHANGED <<todo, processing>>
       /\ \A s \in BagToSet(sweeps) :
             /\ SweepError(s)
                   => /\ UNCHANGED <<todo, processing, ticks, swept, limit, running, cycles>>
                      /\ sweeps' = Drop(sweeps, s)
             /\ SweepRequeue(s)
                   => \/ /\ processing # <<>>
                         /\ processing' = Tail(processing)
                         /\ todo' = Append(todo, s.copy)
                      \/ processing = <<>> /\ UNCHANGED <<todo, processing>>]_vars

\* The only tick so far ended on a command rejected inside the `todo-lock`
\* critical section: the job pushed is still the whole of `todo`, unstamped,
\* `running` is back to 0 and a further tick may fire.
C20_Witness ==
    /\ errors > 0 /\ ticks = 1 /\ swept = 0 /\ ticks < limit.ticks
    /\ lock["todo"] /\ Holders("todo") = 0
    /\ nextId = 2 /\ todo = <<NewJob(1)>> /\ processing = <<>>
    /\ \A w \in Workers : cycles[w] = EmptyBag /\ running[w] = 0

\* The bodies running anywhere, as <<worker, call>>.
AllBodies == UNION {{<<w, t>> : t \in InBody(w)} : w \in Workers}

\* C21: retry looks at the head of `processing` and at nothing else, so a
\* record whose body is still running is requeued once it is stale with
\* tries < 3, and a later tick claims and executes the job again beside the
\* first execution. With no lock expired inside a critical section this is
\* the only way to two executions of one job at once: they never carry the
\* same tries, and the earlier one is stale and was claimed fewer than 3
\* times.
C21_DuplicateOnlyAfterRequeue ==
    expired = 0
        => \A x, y \in AllBodies :
              LET a == x[2].copy  b == y[2].copy
              IN /\ CopiesIn(x[2], cycles[x[1]]) = 1
                 /\ (x # y /\ a.id = b.id)
                       => /\ a.tries # b.tries
                          /\ a.tries < b.tries
                                => (now >= a.timestamp + StaleThreshold /\ a.tries < MaxTries)

\* Two bodies of one job run at once: the first claim's, now stale, and the
\* claim's that followed the requeue.
C21_Witness ==
    /\ expired = 0 /\ errors = 0
    /\ \E x, y \in AllBodies :
          /\ x[2].copy.id = y[2].copy.id
          /\ y[2].copy.tries = x[2].copy.tries + 1
          /\ now >= x[2].copy.timestamp + StaleThreshold

Total == Len(todo) + Len(processing)

\* No job id occurs more than once across the two lists.
C22_NoDuplicateId == expired = 0 => Total = Cardinality(AllIds)

\* A claim and a requeue each move exactly one record; the total changes only
\* by a push (+1), a removal after a successful body (-1) and the discard of
\* an exhausted record (-1).
C22_Steps ==
    expired = 0 =>
        /\ \A w \in Workers : \A t \in BagToSet(cycles[w]) :
              Claim(w, t)
                  => /\ Len(todo') = Len(todo) - 1
                     /\ Len(processing') = Len(processing) + 1
                     /\ Ids(todo') \cup Ids(processing') = AllIds
        /\ \A s \in BagToSet(sweeps) :
              SweepRequeue(s)
                  => /\ Len(processing') = Len(processing) - 1
                     /\ Len(todo') = Len(todo) + 1
                     /\ Ids(todo') \cup Ids(processing') = AllIds
        /\ Total' # Total
              => \/ Enqueue /\ Total' = Total + 1
                 \/ /\ \E w \in Workers : \E t \in BagToSet(cycles[w]) : Remove(w, t)
                    /\ Total' = Total - 1
                 \/ /\ \E s \in BagToSet(sweeps) : SweepDiscard(s) /\ ~CanRetry(s.copy)
                    /\ Total' = Total - 1

\* C22: as long as no lock has expired while its holder was inside the
\* critical section, records are conserved: claims and requeues move one
\* record each and keep the total, only push, success removal and exhausted
\* discard change it, and no job id occurs twice across the two lists.
C22_RecordsConserved == []C22_NoDuplicateId /\ [][C22_Steps]_vars

\* With no lock expired in a critical section, both jobs are in the lists,
\* one of them back in `todo` after its first claim and a requeue.
C22_Witness ==
    /\ expired = 0 /\ Total = 2 /\ AllIds = {1, 2}
    /\ \E r \in Records(todo) : r.tries = 1

\* C23: the clock never goes back, and as long as no lock has expired while
\* its holder was inside the critical section `processing` is ordered by
\* timestamp, oldest at the head; so when the head is not stale no record of
\* `processing` is, and a sweep that reads only the head passes over no stale
\* record.
C23_OldestAtHead ==
    /\ [][now' >= now]_vars
    /\ [](expired = 0
            => /\ \A i, j \in 1..Len(processing) :
                     i < j => processing[i].timestamp <= processing[j].timestamp
               /\ (processing # <<>> /\ now < Head(processing).timestamp + StaleThreshold)
                     => \A i \in 1..Len(processing) :
                           now < processing[i].timestamp + StaleThreshold)

\* Two claims made at different clock readings are both in `processing`, the
\* older at the head, and no lock has expired in a critical section.
C23_Witness ==
    /\ expired = 0 /\ Len(processing) = 2
    /\ processing[1].timestamp < processing[2].timestamp

\* The head of `processing` is young, with a second record behind it.
C23_WitnessYoungHead ==
    /\ expired = 0 /\ Len(processing) = 2
    /\ now < Head(processing).timestamp + StaleThreshold

\* While calls are in progress one of them can take a step or a TTL can
\* elapse, and a lock set with nobody inside its critical section while a
\* call waits for the other lock was left by a rejected command, not by the
\* waiting call.
C24_NoneHeldWhileWaiting ==
    /\ ((sweeps # EmptyBag \/ \E w \in Workers : cycles[w] # EmptyBag)
           => ENABLED Progress)
    /\ \A k \in Keys : \A h \in Keys \ {k} :
          (Waiting(k) > 0 /\ lock[h] /\ Holders(h) = 0) => errors > 0

\* execute waits for `processing-lock` only after its body, which it starts
\* in the step that deletes `todo-lock`; retry never touches `todo-lock`.
C24_Steps ==
    /\ \A w \in Workers : \A t \in BagToSet(cycles[w]) :
          /\ AcquireTodo(w, t) => (t.pc = "acqTodo" /\ lock'["processing"] = lock["processing"])
          /\ AcquireProcessing(w, t)
                => (t.pc = "acqProc" /\ lock'["todo"] = lock["todo"])
          /\ \A u \in BagToSet(cycles'[w]) :
                (u.pc = "acqProc" /\ CopiesIn(u, cycles'[w]) > CopiesIn(u, cycles[w]))
                    => \E b \in InBody(w) : BodySucceeds(w, b)
          /\ \A u \in InBody(w)' :
                CopiesIn(u, cycles'[w]) > CopiesIn(u, cycles[w]) => ~lock'["todo"]
    /\ \A s \in BagToSet(sweeps) :
          (SweepAcquire(s) \/ SweepPeek(s) \/ SweepRequeue(s) \/ SweepDiscard(s)
              \/ SweepRelease(s) \/ SweepError(s))
              => lock'["todo"] = lock["todo"]

\* C24: no call of execute or of retry waits for one lock while it holds the
\* other: execute deletes `todo-lock` before it polls for `processing-lock`,
\* retry takes `processing-lock` only, and no state is reached in which the
\* calls in progress wait for each other.
C24_NoLockOrderDeadlock == []C24_NoneHeldWhileWaiting /\ [][C24_Steps]_vars

\* Both locks are held by calls inside their critical sections while other
\* calls poll for each of them.
C24_Witness ==
    /\ Holders("todo") = 1 /\ Holders("processing") = 1
    /\ Waiting("todo") > 0 /\ Waiting("processing") > 0
    /\ lock["todo"] /\ lock["processing"]

\* C25: the removal of a call of execute takes out of `processing` one
\* record equal to the record the call stamped, if there is one, and nothing
\* else; when a sweep has requeued or discarded that record in the meantime,
\* and whether or not a later claim has put the job back with a new stamp,
\* the removal changes neither list. As long as no lock has expired inside a
\* critical section, `processing` holds the stamped record at most once.
C25_RemovesOwnStampOnly ==
    /\ [][\A w \in Workers : \A t \in BagToSet(cycles[w]) :
             Remove(w, t)
                 => /\ todo' = todo
                    /\ Occurs(processing, t.copy) = 0 => processing' = processing
                    /\ Occurs(processing, t.copy) > 0
                          => /\ Len(processing') = Len(processing) - 1
                             /\ Occurs(processing', t.copy) = Occurs(processing, t.copy) - 1
                    /\ \A r \in Records(processing) \ {t.copy} :
                          Occurs(processing', r) = Occurs(processing, r)]_vars
    /\ [](expired = 0
            => \A w \in Workers : \A t \in BagToSet(cycles[w]) :
                  t.pc = "lrem" => Occurs(processing, t.copy) <= 1)

\* A call has run its removal late: the job it executed was requeued and
\* claimed again, and the later claim's record is still in `processing`.
C25_Witness ==
    /\ expired = 0 /\ errors = 0
    /\ \E w \in Workers : \E t \in BagToSet(cycles[w]) :
          /\ t.pc = "relProc" /\ t.copy # NoJob
          /\ Occurs(processing, t.copy) = 0 /\ Occurs(todo, t.copy) = 0
          /\ \E r \in Records(processing) :
                r.id = t.copy.id /\ r.tries = t.copy.tries + 1

====
